---- MODULE Spec2Model ----
(***************************************************************************)
(* Model of the udb chat REPL (chat.ts): the capability server's tool     *)
(* handlers, streamClaudeResponse, and the startChat read-eval loop with  *)
(* its readline interface and shutdown promise.                           *)
(*                                                                         *)
(* Strings are sequences of tokens; a token is one character, or one      *)
(* fixed piece of text of the program ("User: ", "Failed to delete: ").   *)
(***************************************************************************)
EXTENDS Integers, Sequences, FiniteSets, TLC

VARIABLES
    history,            \* ChatMessage[] of startChat
    pendingOperation,   \* "null" or "promise"
    isClosed,           \* startChat's flag
    rlClosed,           \* readline Interface: closed
    questionCallback,   \* readline Interface: the pending question callback
    lines,              \* collectInput: the lines gathered so far
    pc,                 \* where the promptUser callback is suspended
    fullInput,          \* value collectInput resolved with
    question,           \* question of the Turn in flight
    turn,               \* the Turn's async body: "none" or "streaming"
    fullPrompt,         \* streamClaudeResponse: prompt handed to query()
    response,           \* streamClaudeResponse: response
    textBuffer,         \* streamClaudeResponse: textBuffer
    hasOutputText,      \* streamClaudeResponse: hasOutputText
    stdout,             \* terminal writes of the current Turn, in order
    awaitingPending,    \* checkAndResolve is suspended on pendingOperation
    resolved,           \* the promise returned by startChat has resolved
    dbClosed,           \* main has called closeDb()
    crashed,            \* an exception escaped every handler
    store,              \* knowledge store: ids of the sources it holds
    toolResult,         \* outcome of the last tool handler run in this Turn
    mcpServer,          \* startChat's capability server: its name and tools
    allowedTools,       \* options.allowedTools of the session last opened
    auth,               \* a call of getAuthenticatedClient and the files it uses
    linesLeft,          \* input lines the environment may still deliver
    eventsLeft,         \* stream events the session may still emit
    toolUses,           \* tool_use blocks the session has opened and not yet run
    inFlight,           \* history variable: Turns started and not settled
    inLines,            \* history variable: raw lines read for the current input
    missed,             \* history variable: questions that arrived during a Turn
    recorded,           \* history variable: every entry ever appended to history
    clearedUpTo,        \* history variable: how many of them a clear has removed
    eventLog,           \* history variable: stream events of the current Turn
    atClose,            \* history variable: the Turn in flight when the input closed
    lastStep            \* history variable: what the REPL did last

vars == << history, pendingOperation, isClosed, rlClosed, questionCallback,
           lines, pc, fullInput, question, turn, fullPrompt, response,
           textBuffer, hasOutputText, stdout, awaitingPending, resolved,
           dbClosed, crashed, store, toolResult, mcpServer, allowedTools, auth,
           linesLeft, eventsLeft, toolUses, inFlight, inLines, missed, recorded, clearedUpTo,
           eventLog, atClose, lastStep >>

\* ------------------------------------------------------------------ bounds
MaxLines == 3
MaxTurns == 2
MaxEvents == 1
MaxStreamEvents == 4
MaxToolCalls == 2
MaxTime == 3

\* ----------------------------------------------------------------- strings
BS == "\\"
NL == "\n"

EndsWith(s, c) == Len(s) > 0 /\ s[Len(s)] = c

\* line.slice(0, -1)
SliceLast(s) == SubSeq(s, 1, Len(s) - 1)

IsSpace(c) == c \in {" ", NL}

RECURSIVE TrimStart(_)
TrimStart(s) ==
    IF s = << >> THEN << >>
    ELSE IF IsSpace(Head(s)) THEN TrimStart(Tail(s)) ELSE s

RECURSIVE TrimEnd(_)
TrimEnd(s) ==
    IF s = << >> THEN << >>
    ELSE IF IsSpace(s[Len(s)]) THEN TrimEnd(SliceLast(s)) ELSE s

Trim(s) == TrimEnd(TrimStart(s))

LowerChar(c) ==
    CASE c = "A" -> "a" [] c = "C" -> "c" [] c = "E" -> "e" [] c = "I" -> "i"
      [] c = "L" -> "l" [] c = "Q" -> "q" [] c = "R" -> "r" [] c = "T" -> "t"
      [] c = "U" -> "u" [] c = "X" -> "x" [] OTHER -> c

ToLowerCase(s) == [i \in 1..Len(s) |-> LowerChar(s[i])]

\* parts.join(sep)
RECURSIVE JoinWith(_, _)
JoinWith(parts, sep) ==
    IF parts = << >> THEN << >>
    ELSE IF Len(parts) = 1 THEN parts[1]
    ELSE parts[1] \o sep \o JoinWith(Tail(parts), sep)

ExitWord == << "e", "x", "i", "t" >>
QuitWord == << "q", "u", "i", "t" >>
ClearWord == << "c", "l", "e", "a", "r" >>

\* ------------------------------------------------------------- the program state
St ==
    [ history |-> history, pendingOperation |-> pendingOperation,
      isClosed |-> isClosed, rlClosed |-> rlClosed,
      questionCallback |-> questionCallback, lines |-> lines, pc |-> pc,
      fullInput |-> fullInput, question |-> question, turn |-> turn,
      fullPrompt |-> fullPrompt, response |-> response,
      textBuffer |-> textBuffer, hasOutputText |-> hasOutputText,
      stdout |-> stdout, awaitingPending |-> awaitingPending,
      resolved |-> resolved, dbClosed |-> dbClosed, crashed |-> crashed,
      store |-> store, toolResult |-> toolResult,
      mcpServer |-> mcpServer, allowedTools |-> allowedTools, auth |-> auth,
      inFlight |-> inFlight, inLines |-> inLines, missed |-> missed,
      recorded |-> recorded, clearedUpTo |-> clearedUpTo,
      eventLog |-> eventLog, atClose |-> atClose,
      lastStep |-> lastStep ]

Becomes(s) ==
    /\ history' = s.history
    /\ pendingOperation' = s.pendingOperation
    /\ isClosed' = s.isClosed
    /\ rlClosed' = s.rlClosed
    /\ questionCallback' = s.questionCallback
    /\ lines' = s.lines
    /\ pc' = s.pc
    /\ fullInput' = s.fullInput
    /\ question' = s.question
    /\ turn' = s.turn
    /\ fullPrompt' = s.fullPrompt
    /\ response' = s.response
    /\ textBuffer' = s.textBuffer
    /\ hasOutputText' = s.hasOutputText
    /\ stdout' = s.stdout
    /\ awaitingPending' = s.awaitingPending
    /\ resolved' = s.resolved
    /\ dbClosed' = s.dbClosed
    /\ crashed' = s.crashed
    /\ store' = s.store
    /\ toolResult' = s.toolResult
    /\ mcpServer' = s.mcpServer
    /\ allowedTools' = s.allowedTools
    /\ auth' = s.auth
    /\ inFlight' = s.inFlight
    /\ inLines' = s.inLines
    /\ missed' = s.missed
    /\ recorded' = s.recorded
    /\ clearedUpTo' = s.clearedUpTo
    /\ eventLog' = s.eventLog
    /\ atClose' = s.atClose
    /\ lastStep' = s.lastStep

\* ------------------------------------------------------- knowledge store
\* store[id] is the number of chunks of source id, or Absent.
Ids == { "s1", "s2" }
Absent == -1
Held(st) == { id \in Ids : st[id] # Absent }

\* An optional numeric argument: given or not.
Given(v) == [ given |-> TRUE, v |-> v ]
NotGiven == [ given |-> FALSE, v |-> 0 ]
\* args.x || d: a given 0 falls back to the default too
OrDefaultFalsy(opt, d) == IF opt.given /\ opt.v # 0 THEN opt.v ELSE d

\* args.x ?? d
OrDefault(opt, d) == IF opt.given THEN opt.v ELSE d

\* What a knowledge-store operation did: it threw, or returned a value.
Threw(error) ==
    [ threw |-> TRUE, success |-> FALSE, error |-> error, id |-> "-",
      existing |-> "-", count |-> 0, found |-> FALSE ]
Succeeded(id, count) ==
    [ threw |-> FALSE, success |-> TRUE, error |-> "-", id |-> id,
      existing |-> "-", count |-> count, found |-> TRUE ]
Failed(error, existing) ==
    [ threw |-> FALSE, success |-> FALSE, error |-> error, id |-> "-",
      existing |-> existing, count |-> 0, found |-> FALSE ]
Listed(count) ==
    [ threw |-> FALSE, success |-> TRUE, error |-> "-", id |-> "-",
      existing |-> "-", count |-> count, found |-> TRUE ]
NotFound ==
    [ threw |-> FALSE, success |-> FALSE, error |-> "-", id |-> "-",
      existing |-> "-", count |-> 0, found |-> FALSE ]

\* search(query, opts): a list of results (here its length), or a fault.
SearchOutcomes(st) ==
    { Listed(n) : n \in 0..Cardinality(Held(st)) } \cup { Threw("embedding failed") }

\* ingestContent(text, opts): a new source, a reported failure, or a fault.
IngestContentOutcomes(st) ==
    { Succeeded(id, 1) : id \in Ids \ Held(st) }
    \cup { Failed("no content", "-"), Threw("embedding failed") }

\* ingestUrl(url, opts): as ingestContent; a failure may name the source
\* that already holds the url.
IngestUrlOutcomes(st) ==
    { Succeeded(id, 1) : id \in Ids \ Held(st) }
    \cup { Failed("already exists", id) : id \in Held(st) }
    \cup { Failed("fetch failed", "-"), Threw("network down") }

\* listKBSources(limit)
ListOutcomes(st) == { Listed(Cardinality(Held(st))), Threw("database closed") }

\* deleteKBSource(id): deleting an id the store does not hold is a failure.
DeleteOutcomes(st, id) ==
    { IF st[id] # Absent THEN Succeeded(id, 0) ELSE Failed("not found", "-"),
      Threw("database closed") }

\* getSourceById(id), then getChunksBySourceId(id)
GetSourceOutcomes(st, id) ==
    { IF st[id] # Absent THEN Succeeded(id, st[id]) ELSE NotFound,
      Threw("database closed") }

StoreAfter(st, req, out) ==
    IF out.threw \/ ~out.success THEN st
    ELSE IF req.tool \in { "kb_add", "kb_ingest" } THEN [ st EXCEPT ![out.id] = out.count ]
    ELSE IF req.tool = "kb_delete" THEN [ st EXCEPT ![req.id] = Absent ]
    ELSE st

\* ------------------------------------------------------ capability server
ToolNames ==
    { "kb_search", "kb_add", "kb_ingest", "kb_list", "kb_delete",
      "kb_get_source_chunks" }

\* createSdkMcpServer({ name, tools }): the server's name and the names its
\* tools are registered under, in order.
createKBMcpServer ==
    [ name |-> "udb-kb",
      tools |-> << "kb_search", "kb_add", "kb_ingest", "kb_list", "kb_delete",
                   "kb_get_source_chunks" >> ]

Range(seq) == { seq[i] : i \in 1..Len(seq) }

\* The name under which a session reaches a tool of a server.
McpToolName(server, name) == << "mcp__", server, "__", name >>

\* AllowedTools, with a tool that writes files.
AllowedToolsWithWrite ==
    << << "mcp__", "udb-kb", "__", "kb_search" >>,
       << "mcp__", "udb-kb", "__", "kb_add" >>,
       << "mcp__", "udb-kb", "__", "kb_ingest" >>,
       << "mcp__", "udb-kb", "__", "kb_list" >>,
       << "mcp__", "udb-kb", "__", "kb_delete" >>,
       << "mcp__", "udb-kb", "__", "kb_get_source_chunks" >>,
       << "Read" >>, << "Glob" >>, << "Write" >> >>

\* options.allowedTools as written in the call of query()
AllowedTools ==
    << << "mcp__", "udb-kb", "__", "kb_search" >>,
       << "mcp__", "udb-kb", "__", "kb_add" >>,
       << "mcp__", "udb-kb", "__", "kb_ingest" >>,
       << "mcp__", "udb-kb", "__", "kb_list" >>,
       << "mcp__", "udb-kb", "__", "kb_delete" >>,
       << "mcp__", "udb-kb", "__", "kb_get_source_chunks" >>,
       << "Read" >>, << "Glob" >> >>

\* A tool call: the arguments the model session sends. complete: every
\* required field is present with its type; blank: a required string field
\* (content, title) is the empty string.
Request(tool, id, limit, minSimilarity) ==
    [ tool |-> tool, id |-> id, limit |-> limit, minSimilarity |-> minSimilarity,
      complete |-> TRUE, blank |-> FALSE ]

\* A call that leaves out a required field of the tool.
Incomplete(tool) == [ Request(tool, "-", NotGiven, NotGiven) EXCEPT !.complete = FALSE ]

\* A call whose required strings are present and empty.
Blank(tool) == [ Request(tool, "-", NotGiven, NotGiven) EXCEPT !.blank = TRUE ]

\* The zod shape of each tool: z.string() for the required fields,
\* z.number().optional() for limit and minSimilarity. No shape bounds a
\* number or a string's length, so only a missing field fails the parse.
SchemaAccepts(req) == req.complete

\* What a handler did: returned a result, or threw. isError FALSE stands for
\* a result without the isError key.
Returned(text, isError) ==
    [ kind |-> "return", text |-> text, isError |-> isError ]
Rejected(error) ==
    [ kind |-> "throw", text |-> << error >>, isError |-> FALSE ]

\* similarity thresholds are in hundredths: 40 is 0.4
DefaultLimit == 5
DefaultMinSimilarity == 40
DefaultListLimit == 20

SearchOptions(args) ==
    [ limit |-> OrDefault(args.limit, DefaultLimit),
      minSimilarity |-> OrDefault(args.minSimilarity, DefaultMinSimilarity) ]

kb_search(args, out) ==
    IF out.threw THEN Rejected(out.error)
    ELSE IF out.count = 0 THEN Returned(<< "No results found." >>, FALSE)
    ELSE Returned(<< "Found ", ToString(out.count), " result(s):" >>, FALSE)

kb_add(args, out) ==
    IF out.threw THEN Rejected(out.error)
    ELSE IF out.success
    THEN Returned(<< "Added successfully!", "Source ID: ", out.id,
                     "Chunks: ", ToString(out.count) >>, FALSE)
    ELSE Returned(<< "Failed to add: ", out.error >>, TRUE)

\* kb_ingest, leaving the existing source's id out of the failure text.
kb_ingestWithoutExisting(args, out) ==
    IF out.threw THEN Rejected(out.error)
    ELSE IF out.success
    THEN Returned(<< "Ingested successfully!", "Source ID: ", out.id,
                     "Chunks: ", ToString(out.count) >>, FALSE)
    ELSE Returned(<< "Failed to ingest: ", out.error >>, TRUE)

kb_ingest(args, out) ==
    IF out.threw THEN Rejected(out.error)
    ELSE IF out.success
    THEN Returned(<< "Ingested successfully!", "Source ID: ", out.id,
                     "Chunks: ", ToString(out.count) >>, FALSE)
    ELSE LET errorMsg == << "Failed to ingest: ", out.error >>
         IN  Returned(IF out.existing # "-"
                      THEN errorMsg \o << "Already exists: ", out.existing >>
                      ELSE errorMsg, TRUE)

\* kb_list, reporting an empty knowledge base as an error.
kb_listEmptyIsError(args, out) ==
    IF out.threw THEN Rejected(out.error)
    ELSE IF out.count = 0 THEN Returned(<< "Knowledge base is empty." >>, TRUE)
    ELSE Returned(<< "Sources (", ToString(out.count), "):" >>, FALSE)

kb_list(args, out) ==
    IF out.threw THEN Rejected(out.error)
    ELSE IF out.count = 0 THEN Returned(<< "Knowledge base is empty." >>, FALSE)
    ELSE Returned(<< "Sources (", ToString(out.count), "):" >>, FALSE)

\* kb_delete, reporting a failure without the isError flag.
kb_deleteUnflagged(args, out) ==
    IF out.threw THEN Rejected(out.error)
    ELSE IF out.success THEN Returned(<< "Deleted source: ", args.id >>, FALSE)
    ELSE Returned(<< "Failed to delete: ", out.error >>, FALSE)

kb_delete(args, out) ==
    IF out.threw THEN Rejected(out.error)
    ELSE IF out.success THEN Returned(<< "Deleted source: ", args.id >>, FALSE)
    ELSE Returned(<< "Failed to delete: ", out.error >>, TRUE)

\* kb_get_source_chunks, reporting a source without chunks as an error.
kb_get_source_chunksEmptyIsError(args, out) ==
    IF out.threw THEN Rejected(out.error)
    ELSE IF ~out.found THEN Returned(<< "Source not found: ", args.id >>, TRUE)
    ELSE IF out.count = 0 THEN Returned(<< "No chunks found for source: ", args.id >>, TRUE)
    ELSE Returned(<< "Source: ", args.id, "Total chunks: ", ToString(out.count) >>, FALSE)

kb_get_source_chunks(args, out) ==
    IF out.threw THEN Rejected(out.error)
    ELSE IF ~out.found THEN Returned(<< "Source not found: ", args.id >>, TRUE)
    ELSE IF out.count = 0 THEN Returned(<< "No chunks found for source: ", args.id >>, FALSE)
    ELSE Returned(<< "Source: ", args.id, "Total chunks: ", ToString(out.count) >>, FALSE)

\* The knowledge-store operations the handler of req.tool invokes, in order,
\* when the store answers out.
StoreCalls(req, out) ==
    CASE req.tool = "kb_search" -> << "search" >>
      [] req.tool = "kb_add" -> << "ingestContent" >>
      [] req.tool = "kb_ingest" -> << "ingestUrl" >>
      [] req.tool = "kb_list" -> << "listKBSources" >>
      [] req.tool = "kb_delete" -> << "deleteKBSource" >>
      [] req.tool = "kb_get_source_chunks" ->
            IF out.threw \/ ~out.found THEN << "getSourceById" >>
            ELSE << "getSourceById", "getChunksBySourceId" >>

\* No options were passed to the knowledge store.
NoOptions == [ limit |-> Absent, minSimilarity |-> Absent ]

\* The limit and threshold the handler of req.tool passes to the store.
StoreOptions(req) ==
    CASE req.tool = "kb_search" -> SearchOptions(req)
      [] req.tool = "kb_list" ->
            [ NoOptions EXCEPT !.limit = OrDefault(req.limit, DefaultListLimit) ]
      [] OTHER -> NoOptions

\* The handler registered under req.tool, run on the store's outcome.
Handler(req, out) ==
    CASE req.tool = "kb_search" -> kb_search(req, out)
      [] req.tool = "kb_add" -> kb_add(req, out)
      [] req.tool = "kb_ingest" -> kb_ingest(req, out)
      [] req.tool = "kb_list" -> kb_list(req, out)
      [] req.tool = "kb_delete" -> kb_delete(req, out)
      [] req.tool = "kb_get_source_chunks" -> kb_get_source_chunks(req, out)

StoreOutcomes(st, req) ==
    CASE req.tool = "kb_search" -> SearchOutcomes(st)
      [] req.tool = "kb_add" -> IngestContentOutcomes(st)
      [] req.tool = "kb_ingest" -> IngestUrlOutcomes(st)
      [] req.tool = "kb_list" -> ListOutcomes(st)
      [] req.tool = "kb_delete" -> DeleteOutcomes(st, req.id)
      [] req.tool = "kb_get_source_chunks" -> GetSourceOutcomes(st, req.id)

NoTool ==
    [ tool |-> "none", req |-> Request("none", "-", NotGiven, NotGiven),
      out |-> NotFound, calls |-> << >>, options |-> NoOptions,
      result |-> Returned(<< >>, FALSE) ]

\* No knowledge-store operation was invoked.
NotCalled == [ NotFound EXCEPT !.error = "not called" ]

\* The model session calls a tool of the server during a Turn: the server
\* parses the arguments with the tool's shape and answers a failed parse with
\* an error result of its own; otherwise it runs the handler.
CallTool(s, req, out) ==
    IF ~SchemaAccepts(req)
    THEN [ s EXCEPT !.toolResult =
                      [ tool |-> req.tool, req |-> req, out |-> NotCalled,
                        calls |-> << >>, options |-> NoOptions,
                        result |-> Returned(<< "Invalid arguments for tool ", req.tool >>,
                                            TRUE) ] ]
    ELSE [ s EXCEPT !.toolResult = [ tool |-> req.tool, req |-> req, out |-> out,
                                     calls |-> StoreCalls(req, out),
                                     options |-> StoreOptions(req),
                                     result |-> Handler(req, out) ],
                    !.store = StoreAfter(s.store, req, out) ]


\* options.maxTurns: the rounds of tool use the session allows in one Turn
maxTurns == 10

\* ------------------------------------------------------ stream messages
\* SDKMessage, reduced to the fields streamClaudeResponse reads.
Msg(type, event, block, hasText, text, content) ==
    [ type |-> type, event |-> event, block |-> block, hasText |-> hasText,
      text |-> text, content |-> content ]

ToolUseStart == Msg("stream_event", "content_block_start", "tool_use", FALSE, << >>, << >>)
TextStart == Msg("stream_event", "content_block_start", "text", FALSE, << >>, << >>)
TextDelta(t) == Msg("stream_event", "content_block_delta", "-", TRUE, t, << >>)
\* a delta without a text field (input_json_delta)
JsonDelta == Msg("stream_event", "content_block_delta", "-", FALSE, << >>, << >>)
AssistantMsg(blocks) == Msg("assistant", "-", "-", FALSE, << >>, blocks)
ResultMsg == Msg("result", "-", "-", FALSE, << >>, << >>)

TextBlock(t) == [ type |-> "text", text |-> t ]
ToolUseBlock == [ type |-> "tool_use", text |-> << >> ]

Write(style, text) == [ style |-> style, text |-> text ]

\* marked.parse(text).trimEnd(): the renderer is a formatting function of the
\* terminal; its output is the text wrapped in the renderer's markup.
renderMarkdown(text) == TrimEnd(<< "<md>" >> \o text \o << NL >>)

RECURSIVE TextOfBlocks(_)
TextOfBlocks(blocks) ==
    IF blocks = << >> THEN << >>
    ELSE (IF Head(blocks).type = "text" THEN Head(blocks).text ELSE << >>)
         \o TextOfBlocks(Tail(blocks))

extractTextFromMessage(message) ==
    IF message.type = "assistant" THEN TextOfBlocks(message.content) ELSE << >>

RoleName(role) == IF role = "user" THEN "User" ELSE "Assistant"

RECURSIVE HistoryPrompt(_)
HistoryPrompt(h) ==
    IF h = << >> THEN << >>
    ELSE << RoleName(Head(h).role), ": " >> \o Head(h).content \o << NL, NL >>
         \o HistoryPrompt(Tail(h))

Reverse(h) == [ i \in 1..Len(h) |-> h[Len(h) + 1 - i] ]

\* BuildPrompt, walking history from its newest entry.
BuildPromptNewestFirst(h, q) == HistoryPrompt(Reverse(h)) \o << "User", ": " >> \o q

BuildPrompt(h, q) == HistoryPrompt(h) \o << "User", ": " >> \o q

ErrorAnswer(errorMsg) == << "I encountered an error: ", errorMsg >>

\* --------------------------------------------------- streamClaudeResponse
\* Entry of streamClaudeResponse up to the first await of the for-await loop.
StreamOpen(s, q) ==
    [ s EXCEPT !.fullPrompt = BuildPrompt(s.history, q),
               !.response = << >>,
               !.textBuffer = << >>,
               !.hasOutputText = FALSE,
               !.toolResult = NoTool,
               !.allowedTools = AllowedTools,
               !.eventLog = << >> ]

\* FlushThought, recording the thought without its newline.
FlushThoughtBare(s) ==
    [ s EXCEPT !.stdout = Append(@, Write("dim", s.textBuffer \o << NL >>)),
               !.response = @ \o s.textBuffer,
               !.textBuffer = << >> ]

\* content_block_start of a tool_use block with text buffered
FlushThought(s) ==
    [ s EXCEPT !.stdout = Append(@, Write("dim", s.textBuffer \o << NL >>)),
               !.response = @ \o s.textBuffer \o << NL >>,
               !.textBuffer = << >> ]

\* BufferDelta, also writing the fragment as it arrives.
BufferDeltaEcho(s, text) ==
    [ s EXCEPT !.textBuffer = @ \o text, !.hasOutputText = TRUE,
               !.stdout = Append(@, Write("plain", text)) ]

BufferDelta(s, text) ==
    [ s EXCEPT !.textBuffer = @ \o text, !.hasOutputText = TRUE ]

\* AssistantFallback, taken again by each later assistant message.
AssistantFallbackLastWins(s, message) ==
    IF ~s.hasOutputText /\ s.textBuffer = << >>
    THEN LET text == extractTextFromMessage(message)
         IN  IF text # << >>
             THEN [ s EXCEPT !.stdout = Append(@, Write("plain", text)),
                             !.response = text ]
             ELSE s
    ELSE s

\* AssistantFallback, taken whatever has been streamed.
AssistantFallbackAlways(s, message) ==
    LET text == extractTextFromMessage(message)
    IN  IF text # << >>
        THEN [ s EXCEPT !.stdout = Append(@, Write("plain", text)),
                        !.response = text ]
        ELSE s

AssistantFallback(s, message) ==
    IF ~s.hasOutputText /\ s.textBuffer = << >> /\ s.response = << >>
    THEN LET text == extractTextFromMessage(message)
         IN  IF text # << >>
             THEN [ s EXCEPT !.stdout = Append(@, Write("plain", text)),
                             !.response = text ]
             ELSE s
    ELSE s

\* Body of the for-await loop for one message.
OnMessage(s, message) ==
    IF message.type = "stream_event"
    THEN LET s1 == IF /\ message.event = "content_block_start"
                      /\ message.block = "tool_use"
                      /\ s.textBuffer # << >>
                   THEN FlushThought(s) ELSE s
             s2 == IF message.event = "content_block_delta" /\ message.hasText
                   THEN BufferDelta(s1, message.text) ELSE s1
         IN  s2
    ELSE IF message.type = "assistant"
    THEN AssistantFallback(s, message)
    ELSE s

\* FlushFinal, answering an empty stream with an error text.
FlushFinalNeverEmpty(s) ==
    IF s.textBuffer # << >>
    THEN [ s EXCEPT !.stdout = Append(@, Write("md", renderMarkdown(s.textBuffer))),
                    !.response = @ \o s.textBuffer ]
    ELSE IF s.response = << >>
    THEN [ s EXCEPT !.response = << "I encountered an error: ", "empty response" >> ]
    ELSE s

\* After the loop: flush the remaining buffer as the final answer.
FlushFinal(s) ==
    IF s.textBuffer # << >>
    THEN [ s EXCEPT !.stdout = Append(@, Write("md", renderMarkdown(s.textBuffer))),
                    !.response = @ \o s.textBuffer ]
    ELSE s

\* The catch block, writing the buffered text before the error.
StreamCatchFlush(s, errorMsg) ==
    [ s EXCEPT !.stdout = (IF s.textBuffer = << >> THEN @
                           ELSE Append(@, Write("md", renderMarkdown(s.textBuffer))))
                          \o << Write("error", << "Claude error: ", errorMsg >>) >>,
               !.response = ErrorAnswer(errorMsg) ]

\* The catch block, keeping the text gathered so far as the answer.
StreamCatchKeep(s, errorMsg) ==
    [ s EXCEPT !.stdout = Append(@, Write("error", << "Claude error: ", errorMsg >>)),
               !.response = @ \o s.textBuffer ]

\* The catch block.
StreamCatch(s, errorMsg) ==
    [ s EXCEPT !.stdout = Append(@, Write("error", << "Claude error: ", errorMsg >>)),
               !.response = ErrorAnswer(errorMsg) ]

\* -------------------------------------------- Google Docs authorization
\* StoredTokens of the token file; a missing or unreadable file is NoTokens.
\* A missing string is "", a missing expiry_date is 0.
NoTokens ==
    [ present |-> FALSE, access_token |-> "", refresh_token |-> "", expiry_date |-> 0 ]
Tokens(access, refresh, expiry) ==
    [ present |-> TRUE, access_token |-> access, refresh_token |-> refresh,
      expiry_date |-> expiry ]

\* No call of getAuthenticatedClient is under way.
AuthIdle ==
    [ pc |-> "idle", credentialsFile |-> "missing", tokenFile |-> NoTokens,
      now |-> 0, loaded |-> NoTokens, clientCredentials |-> NoTokens,
      refreshed |-> FALSE, refreshFailed |-> FALSE, authUrlShown |-> FALSE,
      browserOpened |-> FALSE, serverListening |-> FALSE, code |-> "",
      result |-> "pending" ]

\* getAuthenticatedClient is called at time now with these two files.
AuthCall(credentialsFile, tokenFile, now) ==
    [ AuthIdle EXCEPT !.pc = "start", !.credentialsFile = credentialsFile,
                      !.tokenFile = tokenFile, !.now = now ]

\* return x
AuthReturn(a, x) == [ a EXCEPT !.pc = "done", !.result = x ]

\* tokens.expiry_date && tokens.expiry_date < Date.now()
NeedsRefresh(tokens, now) == tokens.expiry_date # 0 /\ tokens.expiry_date < now

\* a || b on strings
OrElse(a, b) == IF a # "" THEN a ELSE b

\* The authorization flow up to the wait for the callback: the URL is
\* generated and printed, the browser is opened, the callback server listens.
startCallbackServer(a) ==
    [ a EXCEPT !.authUrlShown = TRUE, !.browserOpened = TRUE,
               !.serverListening = TRUE, !.pc = "awaitCallback" ]

\* getAuthenticatedClient up to its first await or return.
getAuthenticatedClient(a) ==
    IF a.credentialsFile # "ok"
    THEN AuthReturn(a, "null")
    ELSE IF a.tokenFile.present
    THEN LET a1 == [ a EXCEPT !.loaded = a.tokenFile,
                              !.clientCredentials = a.tokenFile ]
         IN  IF NeedsRefresh(a.tokenFile, a.now)
             THEN [ a1 EXCEPT !.pc = "refreshing" ]
             ELSE AuthReturn(a1, "client")
    ELSE startCallbackServer(a)

\* refreshAccessToken resolved: the tokens are saved and set on the client,
\* and control leaves the if statement.
AfterRefresh(a, newCreds) ==
    startCallbackServer(
        [ a EXCEPT !.tokenFile = Tokens(newCreds.access_token,
                                        OrElse(newCreds.refresh_token,
                                               a.loaded.refresh_token),
                                        newCreds.expiry_date),
                   !.clientCredentials = newCreds,
                   !.refreshed = TRUE ])

\* refreshAccessToken rejected: logged, then the authorization flow.
AfterRefreshFailed(a) == startCallbackServer([ a EXCEPT !.refreshFailed = TRUE ])

\* The callback server received the request with a code: it closes and
\* the code is exchanged for tokens.
AfterCallback(a) ==
    [ a EXCEPT !.serverListening = FALSE, !.code = "c1", !.pc = "awaitToken" ]

\* No code, a request error or the timeout: the catch returns null.
AfterCallbackFailed(a) == AuthReturn([ a EXCEPT !.serverListening = FALSE ], "null")

\* getToken resolved
AfterToken(a, newTokens) ==
    AuthReturn([ a EXCEPT !.tokenFile = Tokens(newTokens.access_token,
                                               newTokens.refresh_token,
                                               newTokens.expiry_date),
                          !.clientCredentials = newTokens ], "client")

\* getToken rejected
AfterTokenFailed(a) == AuthReturn(a, "null")

\* ------------------------------------------------------------- readline
\* Interface.question: throws after close, keeps an already pending callback.
RlQuestion(s, cb) ==
    IF s.rlClosed THEN [ s EXCEPT !.crashed = TRUE ]
    ELSE IF s.questionCallback # "none" THEN s
    ELSE [ s EXCEPT !.questionCallback = cb ]

\* -------------------------------------------------------------- startChat
Resolve(s) == [ s EXCEPT !.resolved = TRUE ]

\* checkAndResolve, resolving without waiting for pendingOperation.
checkAndResolveNoWait(s) == IF s.isClosed THEN Resolve(s) ELSE s

\* checkAndResolve, up to its await. The close listener registered before it
\* has set isClosed, so the setTimeout branch is not taken.
checkAndResolve(s) ==
    IF s.isClosed
    THEN IF s.pendingOperation # "null"
         THEN [ s EXCEPT !.awaitingPending = TRUE ]
         ELSE Resolve(s)
    ELSE s

\* checkAndResolve, resumed when pendingOperation has settled.
checkAndResolveResume(s) ==
    IF s.awaitingPending
    THEN Resolve([ s EXCEPT !.awaitingPending = FALSE ])
    ELSE s

\* rl.on("close", () => { isClosed = true })
OnClose(s) == [ s EXCEPT !.isClosed = TRUE ]

\* Interface.close, answering a pending continuation prompt with an empty
\* line, which completes the collected input.
RlCloseAnswersPending(s) ==
    IF s.rlClosed THEN s
    ELSE LET c == checkAndResolve(OnClose([ s EXCEPT !.rlClosed = TRUE ]))
         IN  IF s.questionCallback = "processLine"
             THEN [ c EXCEPT !.questionCallback = "none",
                             !.lines = Append(@, << >>),
                             !.fullInput = JoinWith(Append(s.lines, << >>), << NL >>),
                             !.pc = "collected" ]
             ELSE c

\* Interface.close: emits "close" to the two listeners in registration order.
RlClose(s) ==
    IF s.rlClosed THEN s
    ELSE checkAndResolve(OnClose([ s EXCEPT !.rlClosed = TRUE ]))

promptUser(s) == IF s.isClosed THEN s ELSE RlQuestion(s, "promptUser")

\* ClearHistory, leaving the entries in place.
ClearHistoryKeep(s) == s

ClearHistory(s) == [ s EXCEPT !.history = << >> ]

\* StartTurn, prompting again without waiting for the Turn.
StartTurnAndPrompt(s, q) ==
    promptUser(StreamOpen([ s EXCEPT !.pendingOperation = "promise",
                                     !.pc = "awaitTurn",
                                     !.question = q,
                                     !.turn = "streaming",
                                     !.stdout = << Write("cyan", << "UDB: " >>) >>,
                                     !.inFlight = @ + 1,
                                     !.lastStep = "turn" ], q))

\* pendingOperation = (async () => { ... })(): runs up to the await of
\* streamClaudeResponse; the callback then suspends on pendingOperation.
StartTurn(s, q) ==
    StreamOpen([ s EXCEPT !.pendingOperation = "promise",
                          !.pc = "awaitTurn",
                          !.question = q,
                          !.turn = "streaming",
                          !.stdout = << Write("cyan", << "UDB: " >>) >>,
                          !.inFlight = @ + 1,
                          !.lastStep = "turn" ], q)

\* RecordTurn, appending the answer without the question.
RecordTurnAnswerOnly(s) ==
    [ s EXCEPT !.stdout = Append(@, Write("log", << NL, NL >>)),
               !.history = Append(@, [ role |-> "assistant", content |-> s.response ]),
               !.turn = "none",
               !.inFlight = @ - 1 ]

\* Rest of the Turn body once streamClaudeResponse has returned.
RecordTurn(s) ==
    [ s EXCEPT !.stdout = Append(@, Write("log", << NL, NL >>)),
               !.history = @ \o << [ role |-> "user", content |-> s.question ],
                                   [ role |-> "assistant", content |-> s.response ] >>,
               !.turn = "none",
               !.inFlight = @ - 1 ]

\* AfterPending, returning without prompting again.
AfterPendingNoPrompt(s) == [ s EXCEPT !.pendingOperation = "null", !.pc = "none" ]

\* The callback resumed after await pendingOperation.
AfterPending(s) ==
    LET s1 == [ s EXCEPT !.pendingOperation = "null", !.pc = "none" ]
    IN  IF ~s1.isClosed THEN promptUser(s1) ELSE s1

\* The Turn's promise settles: the Turn body finishes, then the two awaiters
\* of pendingOperation resume in the order in which they started to wait.
Settle(s) ==
    LET done == RecordTurn(s)
        logged == [ done EXCEPT
                      !.recorded = @ \o << [ role |-> "user", content |-> s.question ],
                                           [ role |-> "assistant", content |-> s.response ] >>,
                      !.lastStep = "settled" ]
    IN  checkAndResolveResume(AfterPending(logged))

\* w occurs somewhere in s
Contains(s, w) ==
    \E i \in 1..(Len(s) - Len(w) + 1) : SubSeq(s, i, i + Len(w) - 1) = w

\* Dispatch, taking any input that contains a command word for the command.
DispatchContains(s, input) ==
    LET q == Trim(input)
        s0 == [ s EXCEPT !.pc = "none" ]
    IN  IF q = << >>
        THEN promptUser([ s0 EXCEPT !.lastStep = "empty" ])
        ELSE IF Contains(ToLowerCase(q), ExitWord) \/ Contains(ToLowerCase(q), QuitWord)
        THEN RlClose([ s0 EXCEPT !.isClosed = TRUE, !.lastStep = "exit" ])
        ELSE IF Contains(ToLowerCase(q), ClearWord)
        THEN promptUser(ClearHistory([ s0 EXCEPT !.clearedUpTo = Len(s.recorded),
                                                 !.missed = { },
                                                 !.lastStep = "clear" ]))
        ELSE StartTurn(s0, q)

\* The Turn body without its catch: the fault rejects pendingOperation and
\* escapes the callback that awaits it.
TurnCatchRethrow(s, err) ==
    [ s EXCEPT !.turn = "none", !.inFlight = @ - 1, !.crashed = TRUE ]

\* catch (err) of the Turn body: the fault is logged and the body ends, so
\* pendingOperation resolves.
TurnCatch(s, err) ==
    [ s EXCEPT !.stdout = Append(@, Write("error", << "Error processing question:", err >>)),
               !.turn = "none",
               !.inFlight = @ - 1 ]

\* The Turn's promise settles after a fault in the Turn body.
SettleCaught(s, err) ==
    checkAndResolveResume(AfterPending([ TurnCatch(s, err) EXCEPT !.lastStep = "caught" ]))

\* Dispatch, submitting a blank input as a question.
DispatchBlankIsQuestion(s, input) ==
    LET q == Trim(input)
        s0 == [ s EXCEPT !.pc = "none" ]
    IN  IF ToLowerCase(q) = ExitWord \/ ToLowerCase(q) = QuitWord
        THEN RlClose([ s0 EXCEPT !.isClosed = TRUE, !.lastStep = "exit" ])
        ELSE IF ToLowerCase(q) = ClearWord
        THEN promptUser(ClearHistory([ s0 EXCEPT !.clearedUpTo = Len(s.recorded),
                                                 !.missed = { },
                                                 !.lastStep = "clear" ]))
        ELSE StartTurn(s0, q)

\* Everything after fullInput is known.
Dispatch(s, input) ==
    LET q == Trim(input)
        s0 == [ s EXCEPT !.pc = "none" ]
    IN  IF q = << >>
        THEN promptUser([ s0 EXCEPT !.lastStep = "empty" ])
        ELSE IF ToLowerCase(q) = ExitWord \/ ToLowerCase(q) = QuitWord
        THEN RlClose([ s0 EXCEPT !.isClosed = TRUE, !.lastStep = "exit" ])
        ELSE IF ToLowerCase(q) = ClearWord
        THEN promptUser(ClearHistory([ s0 EXCEPT !.clearedUpTo = Len(s.recorded),
                                                 !.missed = { },
                                                 !.lastStep = "clear" ]))
        ELSE StartTurn(s0, q)

\* processLine, keeping the continuation marker of each line.
processLineKeepMarker(s, line) ==
    IF EndsWith(line, BS)
    THEN RlQuestion([ s EXCEPT !.lines = Append(@, line),
                               !.lastStep = "collect" ], "processLine")
    ELSE [ s EXCEPT !.lines = Append(@, line),
                    !.fullInput = JoinWith(Append(s.lines, line), << NL >>),
                    !.pc = "collected",
                    !.lastStep = "collect" ]

\* processLine of collectInput
processLine(s, line) ==
    IF EndsWith(line, BS)
    THEN RlQuestion([ s EXCEPT !.lines = Append(@, SliceLast(line)),
                               !.lastStep = "collect" ], "processLine")
    ELSE [ s EXCEPT !.lines = Append(@, line),
                    !.fullInput = JoinWith(Append(s.lines, line), << NL >>),
                    !.pc = "collected",
                    !.lastStep = "collect" ]

collectInput(s, initialLine) ==
    processLine([ s EXCEPT !.lines = << >>, !.pc = "collecting" ], initialLine)

\* The callback of rl.question in promptUser, up to its first suspension.
QuestionCallback(s, input) ==
    IF s.isClosed THEN s
    ELSE IF EndsWith(input, BS) THEN collectInput(s, input)
    ELSE Dispatch(s, input)

\* Interface[kOnLine]: a line goes to the pending question callback, and
\* otherwise is emitted as a "line" event, for which nothing listens.
OnLine(s, line) ==
    IF s.questionCallback = "promptUser"
    THEN QuestionCallback([ s EXCEPT !.questionCallback = "none",
                                     !.inLines = << line >> ], line)
    ELSE IF s.questionCallback = "processLine"
    THEN processLine([ s EXCEPT !.questionCallback = "none",
                                !.inLines = Append(@, line) ], line)
    ELSE s


\* ------------------------------------------------------------ environment
InputLines ==
    { << >>, << "a" >>, << " ", "b" >>, << "a", BS >>, << " ", BS >>,
      << "C", "l", "e", "a", "r" >>, << "e", "x", "i", "t" >> }

DeltaTexts == { << "x" >>, << "y" >>, << >> }

AssistantContents ==
    { << TextBlock(<< "m" >>) >>, << ToolUseBlock >>,
      << TextBlock(<< "m" >>), ToolUseBlock, TextBlock(<< "n" >>) >> }

Messages ==
    { ToolUseStart, TextStart, JsonDelta, ResultMsg }
    \cup { TextDelta(d) : d \in DeltaTexts }
    \cup { AssistantMsg(c) : c \in AssistantContents }

Faults == { "spawn failed" }

\* What a write to the terminal in the Turn body may throw.
BodyFaults == { "write EPIPE" }

CredentialsFiles == { "missing", "invalid", "ok" }

TokenFiles ==
    { NoTokens }
    \cup { Tokens("a0", r, e) : r \in { "", "r0" }, e \in 0..MaxTime }

\* What the token endpoint answers.
GrantedTokens ==
    { Tokens("a1", "", 0), Tokens("a1", "r1", MaxTime + 1) }

LiveLines == { << "a" >>, << "a", BS >> }

FaultLines == { << "a" >>, << " ", "b" >>, << "e", "x", "i", "t" >> }

Requests ==
    { Request("kb_search", "-", NotGiven, NotGiven),
      Request("kb_search", "-", Given(2), Given(50)),
      Request("kb_search", "-", Given(0), Given(0)),
      Request("kb_list", "-", Given(0), NotGiven),
      Request("kb_search", "-", Given(-1), NotGiven),
      Request("kb_search", "-", NotGiven, Given(150)),
      Incomplete("kb_search"), Incomplete("kb_add"),
      Blank("kb_add"),
      Request("kb_add", "-", NotGiven, NotGiven),
      Request("kb_ingest", "-", NotGiven, NotGiven),
      Request("kb_list", "-", NotGiven, NotGiven) }
    \cup { Request(tool, id, NotGiven, NotGiven) :
             tool \in { "kb_delete", "kb_get_source_chunks" }, id \in Ids }

Stores == [ Ids -> { Absent, 0, 1 } ]
EmptyStore == [ id \in Ids |-> Absent ]

\* The input is still open.
ReplMessages == { TextDelta(<< "x" >>), ToolUseStart }

ReplRequests == { Request("kb_delete", id, NotGiven, NotGiven) : id \in Ids }

\* Lines around the command words: other case, padding, a command word inside
\* a longer text, a command word on a continued line.
CommandLines ==
    { << >>, << " " >>, << "a" >>,
      << "e", "x", "i", "t" >>, << " ", "Q", "U", "I", "T", " " >>,
      << "C", "l", "e", "a", "r" >>,
      << "e", "x", "i", "t", " ", "a" >>, << "c", "l", "e", "a", "r", "x" >>,
      << "q", "u", "i", "t", BS >> }

Questions == { << "a" >> }

Histories ==
    { << >>,
      << [ role |-> "user", content |-> << "a" >> ],
         [ role |-> "assistant", content |-> << "x", NL, "y" >> ] >> }

StillOpen == [ open |-> TRUE, inFlight |-> 0, question |-> << >>, length |-> 0 ]

\* ------------------------------------------------------------------- Init
\* startChat has run to its return: the first prompt is pending.
Started(st) ==
    [ history |-> << >>, pendingOperation |-> "null", isClosed |-> FALSE,
      rlClosed |-> FALSE, questionCallback |-> "promptUser", lines |-> << >>,
      pc |-> "none", fullInput |-> << >>, question |-> << >>, turn |-> "none",
      fullPrompt |-> << >>, response |-> << >>, textBuffer |-> << >>,
      hasOutputText |-> FALSE, stdout |-> << >>, awaitingPending |-> FALSE,
      resolved |-> FALSE, dbClosed |-> FALSE, crashed |-> FALSE, store |-> st,
      toolResult |-> NoTool, mcpServer |-> createKBMcpServer,
      allowedTools |-> << >>, auth |-> AuthIdle, inFlight |-> 0,
      inLines |-> << >>,
      missed |-> { }, recorded |-> << >>, clearedUpTo |-> 0,
      eventLog |-> << >>,
      atClose |-> StillOpen, lastStep |-> "start" ]

Is(s) ==
    /\ history = s.history
    /\ pendingOperation = s.pendingOperation
    /\ isClosed = s.isClosed
    /\ rlClosed = s.rlClosed
    /\ questionCallback = s.questionCallback
    /\ lines = s.lines
    /\ pc = s.pc
    /\ fullInput = s.fullInput
    /\ question = s.question
    /\ turn = s.turn
    /\ fullPrompt = s.fullPrompt
    /\ response = s.response
    /\ textBuffer = s.textBuffer
    /\ hasOutputText = s.hasOutputText
    /\ stdout = s.stdout
    /\ awaitingPending = s.awaitingPending
    /\ resolved = s.resolved
    /\ dbClosed = s.dbClosed
    /\ crashed = s.crashed
    /\ store = s.store
    /\ toolResult = s.toolResult
    /\ mcpServer = s.mcpServer
    /\ allowedTools = s.allowedTools
    /\ auth = s.auth
    /\ inFlight = s.inFlight
    /\ inLines = s.inLines
    /\ missed = s.missed
    /\ recorded = s.recorded
    /\ clearedUpTo = s.clearedUpTo
    /\ eventLog = s.eventLog
    /\ atClose = s.atClose
    /\ lastStep = s.lastStep

Init ==
    /\ Is(Started([ EmptyStore EXCEPT !["s1"] = 1 ]))
    /\ linesLeft = MaxLines
    /\ eventsLeft = MaxEvents
    /\ toolUses = 0

\* ---------------------------------------------------------------- actions
\* The history variables that record the moment the input closes.
Observed(s1) ==
    IF s1.rlClosed /\ ~rlClosed
    THEN [ s1 EXCEPT !.atClose = [ open |-> FALSE, inFlight |-> inFlight,
                                   question |-> question,
                                   length |-> Len(history) ] ]
    ELSE s1

IsQuestion(line) ==
    /\ ~EndsWith(line, BS)
    /\ Trim(line) # << >>
    /\ ToLowerCase(Trim(line)) \notin { ExitWord, QuitWord, ClearWord }

\* readline delivers one line of input.
LineArrives(line) ==
    /\ ~rlClosed
    /\ linesLeft > 0
    /\ Len(history) < 2 * MaxTurns
    /\ LET s1 == OnLine(St, line)
           s2 == IF questionCallback = "none" /\ inFlight > 0 /\ IsQuestion(line)
                 THEN [ s1 EXCEPT !.missed = @ \cup { Trim(line) } ]
                 ELSE s1
       IN  Becomes(Observed(s2))
    /\ linesLeft' = linesLeft - 1
    /\ UNCHANGED << eventsLeft, toolUses >>

\* The callback resumes after await collectInput(input): a microtask queued
\* when processLine resolved the promise. What readline does in the same
\* turn of the event loop (more lines of the chunk, the close) comes first.
ResumeCollected ==
    /\ pc = "collected"
    /\ Becomes(Observed(Dispatch(St, fullInput)))
    /\ UNCHANGED << linesLeft, eventsLeft, toolUses >>

\* The input ends: readline closes its interface.
InputCloses ==
    /\ ~rlClosed
    /\ Becomes(Observed(RlClose([ St EXCEPT !.lastStep = "eof" ])))
    /\ UNCHANGED << linesLeft, eventsLeft, toolUses >>

\* The session yields its next message to the for-await loop.
StreamMessage(message) ==
    /\ turn = "streaming"
    /\ eventsLeft > 0
    /\ Becomes([ OnMessage(St, message) EXCEPT !.eventLog = Append(@, message) ])
    /\ eventsLeft' = eventsLeft - 1
    /\ toolUses' = IF message = ToolUseStart THEN toolUses + 1 ELSE toolUses
    /\ UNCHANGED linesLeft

\* The stream ends: streamClaudeResponse returns and the Turn settles.
StreamEnds ==
    /\ turn = "streaming"
    /\ Becomes(Settle(FlushFinal(St)))
    /\ toolUses' = 0
    /\ UNCHANGED << linesLeft, eventsLeft >>

\* query() or the stream throws: the catch block, then the Turn settles.
StreamFails(errorMsg) ==
    /\ turn = "streaming"
    /\ Becomes([ Settle(StreamCatch(St, errorMsg)) EXCEPT !.lastStep = "failed" ])
    /\ toolUses' = 0
    /\ UNCHANGED << linesLeft, eventsLeft >>

\* The session calls a tool; the handler runs against the knowledge store.
ToolCalled(req, out) ==
    /\ turn = "streaming"
    /\ toolUses > 0
    /\ req.tool \in Range(mcpServer.tools)
    /\ McpToolName(mcpServer.name, req.tool) \in Range(allowedTools)
    /\ out \in StoreOutcomes(store, req)
    /\ Becomes(CallTool(St, req, out))
    /\ toolUses' = toolUses - 1
    /\ UNCHANGED << linesLeft, eventsLeft >>

\* streamClaudeResponse has returned and console.log("\n") of the Turn body
\* throws: the pushes to history are skipped and the catch runs.
TurnBodyFails(err) ==
    /\ turn = "streaming"
    /\ Becomes(SettleCaught(FlushFinal(St), err))
    /\ toolUses' = 0
    /\ UNCHANGED << linesLeft, eventsLeft >>

\* The rounds of tool use the session has opened in the Turn.
ToolRounds(log) == Cardinality({ i \in 1..Len(log) : log[i] = ToolUseStart })

\* The session opens one more round of tool use, which it does at most
\* maxTurns times in a Turn.
ToolRound ==
    /\ turn = "streaming"
    /\ ToolRounds(eventLog) < maxTurns
    /\ Becomes([ OnMessage(St, ToolUseStart) EXCEPT !.eventLog = Append(@, ToolUseStart) ])
    /\ UNCHANGED << linesLeft, eventsLeft, toolUses >>

\* The session goes on: it opens another round or ends its stream.
SessionStep == ToolRound \/ StreamEnds

\* One step of a call of getAuthenticatedClient.
AuthStep(a) ==
    /\ Becomes([ St EXCEPT !.auth = a ])
    /\ UNCHANGED << linesLeft, eventsLeft, toolUses >>

AuthBegins == auth.pc = "start" /\ AuthStep(getAuthenticatedClient(auth))

RefreshSucceeds(newCreds) ==
    auth.pc = "refreshing" /\ AuthStep(AfterRefresh(auth, newCreds))

RefreshFails == auth.pc = "refreshing" /\ AuthStep(AfterRefreshFailed(auth))

CallbackArrives == auth.pc = "awaitCallback" /\ AuthStep(AfterCallback(auth))

CallbackFails == auth.pc = "awaitCallback" /\ AuthStep(AfterCallbackFailed(auth))

TokenGranted(newTokens) ==
    auth.pc = "awaitToken" /\ AuthStep(AfterToken(auth, newTokens))

TokenDenied == auth.pc = "awaitToken" /\ AuthStep(AfterTokenFailed(auth))

\* main resumes after await startChat() and closes the database.
MainResumes ==
    /\ resolved
    /\ ~dbClosed
    /\ dbClosed' = TRUE
    /\ UNCHANGED << history, pendingOperation, isClosed, rlClosed,
                    questionCallback, lines, pc, fullInput, question, turn,
                    fullPrompt, response, textBuffer, hasOutputText, stdout,
                    awaitingPending, resolved, crashed, store, toolResult,
                    mcpServer, allowedTools, auth, linesLeft, eventsLeft, toolUses, inFlight, inLines,
                    missed, recorded, clearedUpTo, eventLog, atClose,
                    lastStep >>

\* The REPL: input lines, the end of input, and Turns over a small session.
Next ==
    \/ \E line \in InputLines : LineArrives(line)
    \/ ResumeCollected
    \/ InputCloses
    \/ \E message \in ReplMessages : StreamMessage(message)
    \/ StreamEnds
    \/ \E errorMsg \in Faults : StreamFails(errorMsg)
    \/ \E req \in ReplRequests : \E out \in StoreOutcomes(store, req) : ToolCalled(req, out)
    \/ MainResumes

Spec == Init /\ [][Next]_vars

\* The REPL reading plain, blank and continued lines and the end of input;
\* every Turn's stream is empty.
NextInput ==
    \/ \E line \in InputLines : LineArrives(line)
    \/ ResumeCollected
    \/ InputCloses
    \/ StreamEnds
    \/ MainResumes

SpecInput == Init /\ [][NextInput]_vars

\* The REPL reading lines around its command words; every Turn's stream is
\* empty.
NextDispatch ==
    \/ \E line \in CommandLines : LineArrives(line)
    \/ ResumeCollected
    \/ InputCloses
    \/ StreamEnds
    \/ MainResumes

SpecDispatch == Init /\ [][NextDispatch]_vars

\* The REPL with Turns whose body may fault after the stream has ended.
NextFault ==
    \/ \E line \in FaultLines : LineArrives(line)
    \/ InputCloses
    \/ StreamMessage(TextDelta(<< "x" >>))
    \/ StreamEnds
    \/ \E err \in BodyFaults : TurnBodyFails(err)
    \/ MainResumes

SpecFault == Init /\ [][NextFault]_vars

\* The REPL with sessions that keep going until their stream ends, and a
\* microtask queue that runs the resumed callback.
NextLive ==
    \/ \E line \in LiveLines : LineArrives(line)
    \/ ResumeCollected
    \/ InputCloses
    \/ ToolRound
    \/ StreamEnds
    \/ MainResumes

SpecLive ==
    Init /\ [][NextLive]_vars /\ WF_vars(SessionStep) /\ WF_vars(ResumeCollected)

\* One call of getAuthenticatedClient over every credentials file, token
\* file and time of the call.
InitAuth ==
    /\ \E cf \in CredentialsFiles : \E tf \in TokenFiles : \E now \in 1..MaxTime :
          Is([ Started(EmptyStore) EXCEPT !.auth = AuthCall(cf, tf, now) ])
    /\ linesLeft = 0
    /\ eventsLeft = 0
    /\ toolUses = 0

NextAuth ==
    \/ AuthBegins
    \/ \E newCreds \in GrantedTokens : RefreshSucceeds(newCreds)
    \/ RefreshFails
    \/ CallbackArrives
    \/ CallbackFails
    \/ \E newTokens \in GrantedTokens : TokenGranted(newTokens)
    \/ TokenDenied

SpecAuth == InitAuth /\ [][NextAuth]_vars

\* One Turn over every stream of messages: streamClaudeResponse as a function
\* of the question, the history and the stream.
InitStream ==
    /\ \E h \in Histories : \E q \in Questions :
         Is(StartTurn([ Started(EmptyStore) EXCEPT !.questionCallback = "none",
                                                   !.history = h,
                                                   !.recorded = h,
                                                   !.inLines = << q >> ], q))
    /\ linesLeft = 0
    /\ eventsLeft = MaxStreamEvents
    /\ toolUses = 0

NextStream ==
    \/ \E message \in Messages : StreamMessage(message)
    \/ StreamEnds
    \/ \E errorMsg \in Faults : StreamFails(errorMsg)

SpecStream == InitStream /\ [][NextStream]_vars

\* One Turn in which the session calls the tools of the capability server,
\* over every knowledge store.
InitTools ==
    /\ \E st \in Stores :
         Is(StartTurn([ Started(st) EXCEPT !.questionCallback = "none",
                                           !.inLines = << << "a" >> >> ], << "a" >>))
    /\ linesLeft = 0
    /\ eventsLeft = MaxToolCalls
    /\ toolUses = 0

NextTools ==
    \/ StreamMessage(ToolUseStart)
    \/ \E req \in Requests : \E out \in StoreOutcomes(store, req) : ToolCalled(req, out)
    \/ StreamEnds

SpecTools == InitTools /\ [][NextTools]_vars

\* ------------------------------------------------------------- properties
Last(seq) == seq[Len(seq)]

UserEntry(q) == [ role |-> "user", content |-> q ]
AssistantEntry(a) == [ role |-> "assistant", content |-> a ]

IsTextDelta(m) ==
    m.type = "stream_event" /\ m.event = "content_block_delta" /\ m.hasText

\* The answer read off the log of a stream: run is the text since the last
\* tool-call start.
RECURSIVE ThoughtsThenFinal(_, _)
ThoughtsThenFinal(log, run) ==
    IF log = << >> THEN run
    ELSE IF Head(log) = ToolUseStart
    THEN (IF run = << >> THEN << >> ELSE run \o << NL >>)
         \o ThoughtsThenFinal(Tail(log), << >>)
    ELSE IF IsTextDelta(Head(log))
    THEN ThoughtsThenFinal(Tail(log), run \o Head(log).text)
    ELSE ThoughtsThenFinal(Tail(log), run)

DeltasAndToolStarts(log) ==
    \A i \in 1..Len(log) : log[i] = ToolUseStart \/ IsTextDelta(log[i])

\* C1: when a stream of text deltas and tool-call starts ends normally, the
\* string streamClaudeResponse returns (and the Turn records) is every run of
\* text buffered at a tool-call start followed by one newline, in order, then
\* the text still buffered at the end; a tool-call start with nothing
\* buffered adds nothing.
C1_AnswerIsThoughtsThenFinal ==
    (lastStep = "settled" /\ DeltasAndToolStarts(eventLog))
        => /\ response = ThoughtsThenFinal(eventLog, << >>)
           /\ Last(history) = AssistantEntry(response)

C1_Witness ==
    /\ lastStep = "settled"
    /\ eventLog = << TextDelta(<< "x" >>), ToolUseStart, ToolUseStart, TextDelta(<< "y" >>) >>
    /\ Last(history) = AssistantEntry(<< "x", NL, "y" >>)

\* C2: at most one Turn is in flight; while it is, no prompt is pending, and
\* a prompt is pending only once pendingOperation has been cleared, whatever
\* lines arrive meanwhile.
C2_OneTurnInFlight ==
    /\ inFlight <= 1
    /\ inFlight = 1 => (questionCallback = "none" /\ pendingOperation = "promise")
    /\ questionCallback # "none" => (inFlight = 0 /\ pendingOperation = "null")

C2_Witness ==
    /\ inFlight = 1
    /\ missed # { }
    /\ linesLeft = MaxLines - 3

\* C3: a question that arrives while a Turn is in flight is held and gets its
\* own Turn once that Turn has settled: when the REPL is again waiting for a
\* line, every such question has been recorded in history.
C3_HeldQuestionGetsItsTurn ==
    (questionCallback = "promptUser" /\ inFlight = 0)
        => \A q \in missed : \E i \in 1..Len(history) : history[i] = UserEntry(q)

\* C4: if the input closes while a Turn is in flight, the promise of
\* startChat does not resolve while that Turn is in flight, and when it has
\* resolved the Turn's question and answer are the entries appended to
\* history after the close.
C4_ResolveWaitsForTurn ==
    (~atClose.open /\ atClose.inFlight > 0)
        => /\ inFlight > 0 => ~resolved
           /\ resolved =>
                /\ pendingOperation = "null"
                /\ turn = "none"
                /\ Len(history) = atClose.length + 2
                /\ history[atClose.length + 1] = UserEntry(atClose.question)
                /\ history[atClose.length + 2] = AssistantEntry(response)

C4_Witness ==
    /\ resolved
    /\ ~atClose.open
    /\ atClose.inFlight = 1
    /\ atClose.length = 2
    /\ Len(history) = 4

\* C5: once the promise of startChat has resolved no Turn is in flight and
\* none starts: every question read before the input closed was settled
\* before the resolution.
C5_NoTurnAfterResolve == resolved => (inFlight = 0 /\ turn = "none")

\* The REPL runs its clear command.
ClearStep ==
    \/ \E line \in InputLines :
         /\ LineArrives(line)
         /\ questionCallback = "promptUser"
         /\ ~EndsWith(line, BS)
         /\ ToLowerCase(Trim(line)) = ClearWord
    \/ ResumeCollected /\ ToLowerCase(Trim(fullInput)) = ClearWord

\* C6: clear empties history and nothing else: it starts no Turn, runs no
\* tool, leaves the knowledge store as it was and prompts again (unless the
\* input has closed); the prompt of every later Turn is built from the
\* entries recorded after the clear alone.
C6_ClearOnlyEmptiesHistory ==
    /\ [][ClearStep =>
            /\ history' = << >>
            /\ store' = store
            /\ toolResult' = toolResult
            /\ inFlight' = inFlight
            /\ turn' = turn
            /\ pendingOperation' = "null"
            /\ (isClosed' \/ questionCallback' = "promptUser")]_vars
    /\ [](turn = "streaming" =>
            fullPrompt = BuildPrompt(SubSeq(recorded, clearedUpTo + 1, Len(recorded)),
                                     question))

C6_Witness ==
    /\ turn = "streaming"
    /\ clearedUpTo = 2
    /\ history = << >>
    /\ fullPrompt = << "User", ": " >> \o question

StripMarker(line) == IF EndsWith(line, BS) THEN SliceLast(line) ELSE line

\* C7: the question of a Turn is the lines read for it, each without its
\* trailing continuation marker, joined by single newlines in read order and
\* trimmed; every line but the last ended with the marker and the last did
\* not, so no Turn starts before the line without the marker is read.
C7_QuestionIsJoinedLines ==
    inFlight > 0 =>
        /\ question = Trim(JoinWith([ i \in 1..Len(inLines) |-> StripMarker(inLines[i]) ],
                                    << NL >>))
        /\ ~EndsWith(Last(inLines), BS)
        /\ \A i \in 1..(Len(inLines) - 1) : EndsWith(inLines[i], BS)

C7_Witness ==
    /\ inFlight = 1
    /\ inLines = << << "a", BS >>, << " ", BS >>, << " ", "b" >> >>
    /\ question = << "a", NL, " ", NL, " ", "b" >>

\* C8: when the store operation behind add, ingest or delete returns, the
\* handler returns too: with isError and a message when the store reported
\* success=false, without isError when it reported success=true; the Turn
\* goes on.
C8_ReportedFailureIsToolError ==
    (toolResult.tool \in { "kb_add", "kb_ingest", "kb_delete" } /\ ~toolResult.out.threw)
        => /\ toolResult.result.kind = "return"
           /\ toolResult.result.isError = ~toolResult.out.success
           /\ toolResult.result.text # << >>
           /\ \/ turn = "streaming"
              \/ lastStep = "settled" /\ questionCallback = "promptUser"
           /\ ~crashed

C8_Witness ==
    /\ toolResult.tool = "kb_delete"
    /\ toolResult.out = Failed("not found", "-")
    /\ toolResult.result = Returned(<< "Failed to delete: ", "not found" >>, TRUE)
    /\ turn = "streaming"

\* C9: when the store operation behind a tool throws, the handler still
\* returns a result with isError=true.
C9_HandlerCatchesStoreFault ==
    (toolResult.tool # "none" /\ toolResult.out.threw)
        => (toolResult.result.kind = "return" /\ toolResult.result.isError)

\* C10: when the session or its stream throws, streamClaudeResponse returns
\* the synthetic error string; the REPL appends the question and that string
\* to history and, unless the input has closed, prompts again.
C10_FaultBecomesAnswer ==
    lastStep = "failed" =>
        /\ ~crashed
        /\ inFlight = 0
        /\ pendingOperation = "null"
        /\ \E e \in Faults : response = ErrorAnswer(e)
        /\ Len(history) >= 2
        /\ history[Len(history) - 1] = UserEntry(question)
        /\ Last(history) = AssistantEntry(response)
        /\ (isClosed \/ questionCallback = "promptUser")

C10_Witness ==
    /\ lastStep = "failed"
    /\ eventLog = << TextDelta(<< "x" >>) >>
    /\ ~isClosed
    /\ questionCallback = "promptUser"
    /\ Last(history) = AssistantEntry(ErrorAnswer("spawn failed"))

\* C11: get-source-chunks tells a missing source from a source without
\* chunks: for an id the store does not hold the result has isError and the
\* chunk list is not fetched; for a held source with zero chunks the result
\* has no isError and carries the no-chunks message.
C11_MissingSourceVersusNoChunks ==
    (toolResult.tool = "kb_get_source_chunks" /\ ~toolResult.out.threw)
        => /\ store[toolResult.req.id] = Absent =>
                /\ toolResult.result = Returned(<< "Source not found: ", toolResult.req.id >>, TRUE)
                /\ toolResult.calls = << "getSourceById" >>
           /\ store[toolResult.req.id] = 0 =>
                /\ toolResult.result =
                      Returned(<< "No chunks found for source: ", toolResult.req.id >>, FALSE)
                /\ toolResult.calls = << "getSourceById", "getChunksBySourceId" >>

C11_Witness ==
    /\ toolResult.tool = "kb_get_source_chunks"
    /\ toolResult.req.id = "s2"
    /\ store = [ s1 |-> Absent, s2 |-> 0 ]
    /\ ~toolResult.result.isError
    /\ toolResult.result.text = << "No chunks found for source: ", "s2" >>

\* C12: when the knowledge store returns an empty sequence to search or to
\* list, the tool's result has no isError and carries the tool's empty
\* message.
C12_EmptyIsSuccess ==
    (/\ toolResult.tool \in { "kb_search", "kb_list" }
     /\ toolResult.calls # << >>
     /\ ~toolResult.out.threw
     /\ toolResult.out.count = 0)
        => toolResult.result =
              Returned(IF toolResult.tool = "kb_search"
                       THEN << "No results found." >>
                       ELSE << "Knowledge base is empty." >>, FALSE)

C12_Witness ==
    /\ toolResult.tool = "kb_list"
    /\ Held(store) = { }
    /\ toolResult.calls = << "listKBSources" >>
    /\ toolResult.result = Returned(<< "Knowledge base is empty." >>, FALSE)

\* The input contract of the tools as documented: a search limit is not
\* negative, a similarity threshold lies in [0, 1], the content and title of
\* an added note are not empty, and every required field is present.
MeetsContract(req) ==
    /\ req.complete
    /\ ~req.blank
    /\ req.limit.given => req.limit.v >= 0
    /\ req.minSimilarity.given => req.minSimilarity.v \in 0..100

\* C19: a tool call whose arguments break the tool's input contract is turned
\* down before the handler runs: no knowledge-store operation is invoked and
\* the result is a tool-level error.
C19_ContractCheckedBeforeHandler ==
    (toolResult.tool # "none" /\ ~MeetsContract(toolResult.req))
        => /\ toolResult.calls = << >>
           /\ toolResult.result.kind = "return"
           /\ toolResult.result.isError

\* input is word in any case, with any white space around it
Matches(input, word) ==
    \E i, j \in 0..Len(input) :
        /\ i + Len(word) + j = Len(input)
        /\ \A k \in 1..i : IsSpace(input[k])
        /\ \A k \in (Len(input) - j + 1)..Len(input) : IsSpace(input[k])
        /\ ToLowerCase(SubSeq(input, i + 1, i + Len(word))) = word

\* q is input without the white space at its ends, and is not empty
IsTrimmed(q, input) ==
    \E i, j \in 0..Len(input) :
        /\ i + j < Len(input)
        /\ \A k \in 1..i : IsSpace(input[k])
        /\ \A k \in (Len(input) - j + 1)..Len(input) : IsSpace(input[k])
        /\ ~IsSpace(input[i + 1])
        /\ ~IsSpace(input[Len(input) - j])
        /\ q = SubSeq(input, i + 1, Len(input) - j)

\* What the step that dispatches input does.
Dispatched(input) ==
    IF Matches(input, ExitWord) \/ Matches(input, QuitWord)
    THEN /\ isClosed' /\ rlClosed'
         /\ inFlight' = 0 /\ turn' = "none" /\ pendingOperation' = "null"
         /\ history' = history
    ELSE IF Matches(input, ClearWord)
    THEN inFlight' = 0 /\ turn' = "none" /\ pendingOperation' = "null"
    ELSE IF \E k \in 1..Len(input) : ~IsSpace(input[k])
    THEN /\ inFlight = 0 /\ inFlight' = 1
         /\ turn' = "streaming" /\ pendingOperation' = "promise"
         /\ IsTrimmed(question', input)
         /\ history' = history
    ELSE inFlight' = 0 /\ turn' = "none" /\ history' = history

\* C13: the command is matched exactly, in any case, against the trimmed
\* input: exit and quit close the REPL without starting a Turn or changing
\* history, clear starts no Turn, and any other input that is not blank, a
\* text that contains a command word included, starts exactly one Turn whose
\* question is the trimmed input.
C13_DispatchIsExactMatch ==
    [][/\ \A line \in CommandLines :
            (LineArrives(line) /\ questionCallback = "promptUser" /\ ~EndsWith(line, BS))
                => Dispatched(line)
       /\ ResumeCollected => Dispatched(fullInput)]_vars

C13_Witness ==
    /\ inFlight = 1
    /\ question = << "e", "x", "i", "t", " ", "a" >>
    /\ ~isClosed
    /\ Len(history) = 2

\* C14: history changes at two points only: when a Turn completes, by the
\* Turn's user entry and assistant entry appended together in that order, and
\* on clear, which empties it. It always has even length and alternates user,
\* assistant, and no step taken while a Turn stays in flight changes it.
C14_HistoryChangesAtSettleOrClear ==
    /\ [](/\ Len(history) % 2 = 0
          /\ \A i \in 1..Len(history) :
                history[i].role = IF i % 2 = 1 THEN "user" ELSE "assistant")
    /\ [][history' # history =>
            \/ ClearStep /\ history' = << >>
            \/ /\ turn = "streaming" /\ turn' = "none"
               /\ inFlight' = inFlight - 1
               /\ history' = history \o << UserEntry(question), AssistantEntry(response') >>]_vars
    /\ [][(inFlight > 0 /\ inFlight' > 0) => history' = history]_vars

C14_Witness ==
    /\ lastStep = "settled"
    /\ clearedUpTo = 2
    /\ Len(recorded) = 4
    /\ history = << UserEntry(<< "a" >>), AssistantEntry(<< "x" >>) >>

\* The writes of streamed text read off the log of a stream: run is the text
\* since the last tool-call start.
RECURSIVE ExpectedWrites(_, _)
ExpectedWrites(log, run) ==
    IF log = << >>
    THEN (IF run = << >> THEN << >> ELSE << Write("md", renderMarkdown(run)) >>)
    ELSE IF Head(log) = ToolUseStart
    THEN (IF run = << >> THEN << >> ELSE << Write("dim", run \o << NL >>) >>)
         \o ExpectedWrites(Tail(log), << >>)
    ELSE IF IsTextDelta(Head(log))
    THEN ExpectedWrites(Tail(log), run \o Head(log).text)
    ELSE ExpectedWrites(Tail(log), run)

IsStreamedWrite(w) == w.style \in { "dim", "md" }

\* The step handles one more message of the stream.
MessageStep == turn = "streaming" /\ Len(eventLog') = Len(eventLog) + 1

\* C15: in a Turn that ends normally each streamed fragment reaches the
\* terminal once: a text delta writes nothing; a tool-call start writes the
\* buffered text, muted and followed by a newline, at that event; the end of
\* the stream writes what is still buffered once, as rendered markdown.
C15_FragmentsWrittenOnce ==
    /\ [](lastStep = "settled" =>
            SelectSeq(stdout, IsStreamedWrite) = ExpectedWrites(eventLog, << >>))
    /\ [][(MessageStep /\ IsTextDelta(Last(eventLog'))) =>
            stdout' = stdout /\ textBuffer' = textBuffer \o Last(eventLog').text]_vars
    /\ [][(MessageStep /\ Last(eventLog') = ToolUseStart) =>
            /\ textBuffer' = << >>
            /\ stdout' = IF textBuffer = << >> THEN stdout
                         ELSE Append(stdout, Write("dim", textBuffer \o << NL >>))]_vars
    /\ [][(turn = "streaming" /\ lastStep' = "settled") =>
            stdout' = stdout
                      \o (IF textBuffer = << >> THEN << >>
                          ELSE << Write("md", renderMarkdown(textBuffer)) >>)
                      \o << Write("log", << NL, NL >>) >>]_vars

C15_Witness ==
    /\ lastStep = "settled"
    /\ eventLog = << TextDelta(<< "x" >>), ToolUseStart, TextDelta(<< "y" >>) >>
    /\ stdout = << Write("cyan", << "UDB: " >>),
                   Write("dim", << "x", NL >>),
                   Write("md", << "<md>", "y" >>),
                   Write("log", << NL, NL >>) >>

\* A text delta has arrived in the Turn.
SomeTextDelta(log) == \E i \in 1..Len(log) : IsTextDelta(log[i])

\* C16: an assistant message changes the answer and the terminal only if no
\* text delta has arrived in the Turn before it; after a text delta, assistant
\* messages leave the answer, the buffer and the terminal as they were, and
\* every fallback write on the terminal is the text of an assistant message
\* that no text delta preceded.
C16_AssistantMessageIsFallbackOnly ==
    /\ [][(MessageStep /\ Last(eventLog').type = "assistant" /\ SomeTextDelta(eventLog)) =>
            /\ response' = response
            /\ textBuffer' = textBuffer
            /\ stdout' = stdout]_vars
    /\ [](\A i \in 1..Len(eventLog) :
            (/\ eventLog[i].type = "assistant"
             /\ \E w \in 1..Len(stdout) :
                    stdout[w] = Write("plain", extractTextFromMessage(eventLog[i])))
                => ~SomeTextDelta(SubSeq(eventLog, 1, i - 1))
                   \/ \E j \in 1..(i - 1) :
                         /\ eventLog[j].type = "assistant"
                         /\ extractTextFromMessage(eventLog[j]) = extractTextFromMessage(eventLog[i])
                         /\ ~SomeTextDelta(SubSeq(eventLog, 1, j - 1)))

C16_Witness ==
    /\ turn = "streaming"
    /\ eventLog = << TextDelta(<< >>), AssistantMsg(<< TextBlock(<< "m" >>) >>) >>
    /\ response = << >>
    /\ stdout = << Write("cyan", << "UDB: " >>) >>

\* C17: the session of a Turn is opened with an allow-list that holds, once
\* each, the name of every tool the capability server registers, prefixed
\* with the server's name, and Read and Glob, and nothing else; the server's
\* six tool names are distinct and the server is the one made at start; every
\* tool that runs is one of them.
C17_AllowListIsServerToolsPlusReadGlob ==
    /\ mcpServer = createKBMcpServer
    /\ Len(mcpServer.tools) = 6
    /\ \A i, j \in 1..Len(mcpServer.tools) :
          mcpServer.tools[i] = mcpServer.tools[j] => i = j
    /\ turn = "streaming" =>
          /\ Range(allowedTools) =
                { McpToolName(mcpServer.name, n) : n \in Range(mcpServer.tools) }
                \cup { << "Read" >>, << "Glob" >> }
          /\ Len(allowedTools) = Len(mcpServer.tools) + 2
          /\ \A i, j \in 1..Len(allowedTools) : allowedTools[i] = allowedTools[j] => i = j
    /\ toolResult.tool # "none" => toolResult.tool \in Range(mcpServer.tools)

C17_Witness ==
    /\ turn = "streaming"
    /\ toolResult.tool = "kb_get_source_chunks"
    /\ McpToolName("udb-kb", "kb_get_source_chunks") \in Range(allowedTools)
    /\ Len(allowedTools) = 8

\* The stream carried no text and no tool call.
NoTextNoTool(log) ==
    \A i \in 1..Len(log) :
        /\ IsTextDelta(log[i]) => log[i].text = << >>
        /\ log[i] # ToolUseStart
        /\ extractTextFromMessage(log[i]) = << >>

\* C18: when the stream of a Turn ends having carried no text and no tool
\* call, the answer is the empty string, nothing fails, the question and the
\* empty answer are the last two entries of history and the REPL prompts
\* again (unless the input has closed).
C18_EmptyStreamGivesEmptyAnswer ==
    (lastStep = "settled" /\ NoTextNoTool(eventLog))
        => /\ response = << >>
           /\ ~crashed
           /\ Len(history) >= 2
           /\ history[Len(history) - 1] = UserEntry(question)
           /\ Last(history) = AssistantEntry(<< >>)
           /\ pendingOperation = "null"
           /\ (isClosed \/ questionCallback = "promptUser")

C18_Witness ==
    /\ lastStep = "settled"
    /\ eventLog = << TextStart, TextDelta(<< >>), AssistantMsg(<< ToolUseBlock >>), ResultMsg >>
    /\ history = << UserEntry(<< "a" >>), AssistantEntry(<< >>) >>
    /\ questionCallback = "promptUser"
    /\ ~isClosed

\* C20: a fault in the Turn body is caught and logged at the Turn's boundary:
\* nothing escapes, the Turn's promise settles and pendingOperation is
\* cleared, the Turn leaves history as it was, the REPL prompts again unless
\* the input has closed, and a startChat that was waiting for the Turn
\* resolves.
C20_TurnFaultIsCaught ==
    /\ [](lastStep = "caught" =>
            /\ ~crashed
            /\ inFlight = 0 /\ turn = "none"
            /\ pendingOperation = "null"
            /\ ~awaitingPending
            /\ Last(stdout).style = "error"
            /\ IF isClosed THEN resolved ELSE questionCallback = "promptUser")
    /\ [][(turn = "streaming" /\ lastStep' = "caught") => history' = history]_vars

C20_Witness ==
    /\ lastStep = "caught"
    /\ history = << UserEntry(<< "a" >>), AssistantEntry(<< "x" >>) >>
    /\ question = << "b" >>
    /\ questionCallback = "promptUser"
    /\ ~isClosed

\* The segment of one history entry: role, colon and space, content, two
\* newlines.
Segment(entry) ==
    << IF entry.role = "user" THEN "User" ELSE "Assistant", ": " >>
    \o entry.content \o << NL, NL >>

\* The segments of the first n entries of h, in order.
RECURSIVE SegmentsUpTo(_, _)
SegmentsUpTo(h, n) ==
    IF n = 0 THEN << >> ELSE SegmentsUpTo(h, n - 1) \o Segment(h[n])

\* C21: the prompt of the Turn in flight is the segments of the history
\* entries present at Turn start, one each in insertion order, followed by
\* "User: " and the question; those entries are the ones recorded since the
\* last clear, so nothing of a cleared entry is in it.
C21_PromptIsHistoryThenQuestion ==
    turn = "streaming" =>
        /\ fullPrompt = SegmentsUpTo(history, Len(history)) \o << "User", ": " >> \o question
        /\ Len(history) = Len(recorded) - clearedUpTo
        /\ \A i \in 1..Len(history) : history[i] = recorded[clearedUpTo + i]

C21_Witness ==
    /\ turn = "streaming"
    /\ clearedUpTo = 0
    /\ fullPrompt = << "User", ": ", "a", NL, NL, "Assistant", ": ", "x", NL, NL,
                       "User", ": ", "b" >>

C23_IngestFailureNamesExisting ==
    (toolResult.tool = "kb_ingest" /\ toolResult.calls # << >>
       /\ ~toolResult.out.threw /\ ~toolResult.out.success)
        => /\ toolResult.result.kind = "return"
           /\ toolResult.result.isError
           /\ IF toolResult.out.existing # "-"
              THEN toolResult.result.text =
                     << "Failed to ingest: ", toolResult.out.error,
                        "Already exists: ", toolResult.out.existing >>
              ELSE /\ toolResult.result.text = << "Failed to ingest: ", toolResult.out.error >>
                   /\ \A id \in Ids : id \notin Range(toolResult.result.text)

C23_Witness ==
    /\ toolResult.tool = "kb_ingest"
    /\ toolResult.out = Failed("already exists", "s2")
    /\ "s2" \in Range(toolResult.result.text)
    /\ toolResult.result.isError

\* C24: when the session keeps going and opens at most maxTurns rounds of
\* tool use, every Turn in flight eventually settles; a Turn that settles
\* with the input open leaves the REPL waiting for a line, and while the input
\* is open the REPL always comes back to waiting for a line.
C24_TurnSettlesAndReplPrompts ==
    /\ (turn = "streaming") ~> (turn = "none" /\ pendingOperation = "null")
    /\ [][(turn = "streaming" /\ turn' = "none" /\ ~isClosed')
            => questionCallback' = "promptUser"]_vars
    /\ [](~rlClosed => <>(rlClosed \/ questionCallback # "none"))

C24_Witness ==
    /\ lastStep = "settled"
    /\ ToolRounds(eventLog) = maxTurns
    /\ questionCallback = "promptUser"
    /\ ~rlClosed
    /\ Len(history) = 4

\* The line holds white space only.
IsBlank(line) == \A k \in 1..Len(line) : IsSpace(line[k])

\* The REPL dispatches an input that is blank: a blank line at the prompt, or
\* a continuation whose lines, markers aside, are all blank.
BlankStep ==
    \/ \E line \in InputLines :
         /\ LineArrives(line)
         /\ questionCallback = "promptUser"
         /\ ~EndsWith(line, BS)
         /\ IsBlank(line)
    \/ /\ ResumeCollected
       /\ \A i \in 1..Len(inLines) : IsBlank(StripMarker(inLines[i]))

\* C25: an input that is blank after joining and trimming starts no Turn,
\* runs no tool, leaves history and the knowledge store as they were, and
\* prompts again (unless the input has closed).
C25_BlankInputOnlyPrompts ==
    [][BlankStep =>
         /\ inFlight' = inFlight /\ turn' = "none" /\ pendingOperation' = "null"
         /\ history' = history
         /\ toolResult' = toolResult /\ store' = store
         /\ fullPrompt' = fullPrompt
         /\ (isClosed' \/ questionCallback' = "promptUser")]_vars

C25_Witness ==
    /\ lastStep = "empty"
    /\ inLines = << << " ", BS >>, << " ", BS >>, << >> >>
    /\ questionCallback = "promptUser"
    /\ inFlight = 0

IsThoughtWrite(w) == w.style = "dim"

\* C26: when the stream throws, the answer returned and recorded is the
\* error string alone, whatever thoughts were flushed and whatever text was
\* buffered before; the terminal holds the thoughts flushed before the fault
\* and the error, and the text that was buffered at the fault is not written.
C26_FaultDropsPartialAnswer ==
    lastStep = "failed" =>
        /\ \E e \in Faults :
              /\ response = ErrorAnswer(e)
              /\ Last(stdout) = Write("log", << NL, NL >>)
              /\ stdout[Len(stdout) - 1] = Write("error", << "Claude error: ", e >>)
        /\ history[Len(history) - 1] = UserEntry(question)
        /\ Last(history) = AssistantEntry(response)
        /\ SelectSeq(stdout, IsStreamedWrite)
              = SelectSeq(ExpectedWrites(eventLog, << >>), IsThoughtWrite)

C26_Witness ==
    /\ lastStep = "failed"
    /\ eventLog = << TextDelta(<< "x" >>), ToolUseStart, TextDelta(<< "y" >>) >>
    /\ textBuffer = << "y" >>
    /\ Last(history) = AssistantEntry(<< "I encountered an error: ", "spawn failed" >>)
    /\ Len(stdout) = 4

\* C27: when the input closes while continuation lines are being collected,
\* the collection never completes: the promise of startChat resolves at the
\* close, and from then on no Turn is in flight, none starts and history
\* stays as it was.
C27_CloseWhileCollecting ==
    /\ []((rlClosed /\ pc = "collecting") =>
            /\ resolved
            /\ inFlight = 0 /\ turn = "none" /\ pendingOperation = "null")
    /\ [][(pc = "collecting" /\ rlClosed') =>
            /\ pc' = "collecting"
            /\ resolved'
            /\ inFlight' = 0 /\ turn' = "none"
            /\ history' = history]_vars

C27_Witness ==
    /\ rlClosed
    /\ pc = "collecting"
    /\ lines = << << "a" >>, << " " >> >>
    /\ Len(history) = 2
    /\ resolved
    /\ dbClosed

\* The text of the first assistant message of the log whose text is not
\* empty; the empty string if there is none.
RECURSIVE FirstAssistantText(_)
FirstAssistantText(log) ==
    IF log = << >> THEN << >>
    ELSE IF Head(log).type = "assistant" /\ TextOfBlocks(Head(log).content) # << >>
    THEN TextOfBlocks(Head(log).content)
    ELSE FirstAssistantText(Tail(log))

IsFallbackWrite(w) == w.style = "plain"

\* C28: the fallback is taken at most once in a Turn: an assistant message
\* that arrives when an answer has been recorded changes nothing, the
\* terminal never holds two fallback writes, and a Turn whose stream carried
\* no text delta records the text of its first assistant message that has
\* text.
C28_FallbackAtMostOnce ==
    /\ [](Len(SelectSeq(stdout, IsFallbackWrite)) <= 1)
    /\ [][(MessageStep /\ Last(eventLog').type = "assistant" /\ response # << >>) =>
            /\ response' = response
            /\ stdout' = stdout]_vars
    /\ []((lastStep = "settled" /\ ~SomeTextDelta(eventLog)) =>
            /\ response = FirstAssistantText(eventLog)
            /\ Last(history) = AssistantEntry(FirstAssistantText(eventLog)))

C28_Witness ==
    /\ lastStep = "settled"
    /\ eventLog = << AssistantMsg(<< ToolUseBlock >>),
                     AssistantMsg(<< TextBlock(<< "m" >>), ToolUseBlock, TextBlock(<< "n" >>) >>),
                     AssistantMsg(<< TextBlock(<< "m" >>) >>) >>
    /\ response = << "m", "n" >>

\* C29: getAuthenticatedClient starts the authorization flow (URL, browser,
\* callback server) only when no tokens are stored or their refresh failed;
\* with stored tokens that need no refresh, or whose refresh succeeded, it
\* returns the client and the flow is not started.
C29_FlowOnlyWithoutValidTokens ==
    /\ (auth.authUrlShown \/ auth.browserOpened \/ auth.serverListening)
          => (~auth.loaded.present \/ auth.refreshFailed)
    /\ (auth.loaded.present /\ ~NeedsRefresh(auth.loaded, auth.now))
          => (auth.result = "client" /\ ~auth.authUrlShown)
    /\ auth.refreshed => (auth.result = "client" /\ ~auth.authUrlShown)

====
